---- MODULE Spec2Model ----
(***************************************************************************)
(* The water-level prediction pipeline of the repository:                  *)
(*   backend/ml_models/water_predictor.py  (WaterLevelPredictor)           *)
(*   backend/tools/prediction_tool.py      (the duplicate predictor)       *)
(*   backend/database/postgis_manager.py   (query_groundwater_data)        *)
(* Both predictor classes keep their model files in the same directory     *)
(* (Config.DATA_FOLDER/models), so the model has one disk and two          *)
(* predictor objects.                                                      *)
(*                                                                         *)
(* Abstractions.  A fitted estimator, scaler or metadata blob is named by  *)
(* the training run that produced it (every run has its own number, as     *)
(* every run has its own training_date).  A row set is a bag of row        *)
(* groups: rows of one group agree on state, district, category, on        *)
(* having a location and on having a water level.  model.predict is an     *)
(* opaque deterministic function: its result is represented by the pair    *)
(* of the fitted model and the feature vector handed to it.                *)
(***************************************************************************)
EXTENDS Integers, Sequences, FiniteSets, TLC

(* ------------------------------ bounds -------------------------------- *)
\* number of training runs that get past the row-count check
MaxRuns == 2
\* largest forecast horizon (prediction_months) tried
MaxMonths == 2
\* number of training jobs that may be in flight at once
MaxJobs == 2
\* largest number of rows handed to _time_series_split
MaxRows == 5

(* ------------------------- program constants -------------------------- *)
\* water_predictor.py:42   if len(historical_data) < 100
MinTrainRecords == 100
\* water_predictor.py:54   if X is None or len(X) < 50
MinValidRows == 50
\* water_predictor.py:244  if len(features_df) > 50  (lag features)
LagMinRows == 50
\* water_predictor.py:263  if len(features_df) > 10  (rolling statistics)
RollingMinRows == 10
\* water_predictor.py:265  window 5 only if len(features_df) > 20
RollingWideMinRows == 20
\* water_predictor.py:40   limit=10000
TrainLimit == 10000
\* water_predictor.py:604  limit=100
ForecastLimit == 100
\* prediction_tool.py:33   limit=5000
ToolTrainLimit == 5000
\* prediction_tool.py:253  limit=50
ToolForecastLimit == 50
\* water_predictor.py:617  timedelta(days=30 * i)
StepDays == 30
\* water_predictor.py:62   test_size=0.2, in percent
TestPercent == 20
\* water_predictor.py:776  .get('rmse', 5.0), in units of 0.0001 m
DefaultRmse == 50000
\* water_predictor.py:779  1.96 * rmse, in hundredths
ConfidenceFactor == 196
\* water_predictor.py:788  (prediction - 5, prediction + 5), in metres
FallbackBand == 5

None == "None"
Unknown == "Unknown"
National == "national"

(* ----------------------------- data store ----------------------------- *)
\* GroundwaterData rows (database/models.py): state and district are
\* NOT NULL, category, location and water_level are nullable.
RowGroups ==
  { [state |-> "Goa",    district |-> "North Goa", category |-> "Safe",
     geo |-> TRUE,  level |-> TRUE],
    [state |-> "Kerala", district |-> "Idukki",    category |-> None,
     geo |-> FALSE, level |-> TRUE] }

RowCounts == {MinTrainRecords - 1, MinTrainRecords}

States == {g.state : g \in RowGroups}
Districts == {g.district : g \in RowGroups}
\* the region argument of train_prediction_model: None or a state name
Regions == {None} \cup States
Keys == States \cup {National}

\* lower-cased characters of the names, for ILIKE
Chars(s) ==
  CASE s = "Goa"       -> <<"g","o","a">>
    [] s = "Kerala"    -> <<"k","e","r","a","l","a">>
    [] s = "North Goa" -> <<"n","o","r","t","h"," ","g","o","a">>
    [] s = "Idukki"    -> <<"i","d","u","k","k","i">>
    [] OTHER           -> <<>>

\* column ILIKE '%pattern%': case-insensitive substring match
Ilike(value, pattern) ==
  LET v == Chars(value)
      p == Chars(pattern)
  IN \E i \in 0..(Len(v) - Len(p)) :
        \A j \in 1..Len(p) : v[i + j] = p[j]

RECURSIVE BagTotal(_, _)
BagTotal(bag, groups) ==
  IF groups = {} THEN 0
  ELSE LET g == CHOOSE x \in groups : TRUE
       IN bag[g] + BagTotal(bag, groups \ {g})

Total(bag) == BagTotal(bag, DOMAIN bag)

EmptyRows == [g \in RowGroups |-> 0]

\* the rows of table tbl that pass the filters
Matching(tbl, filters) ==
  [g \in RowGroups |->
     IF /\ (filters.state # None => Ilike(g.state, filters.state))
        /\ (filters.district # None => Ilike(g.district, filters.district))
     THEN tbl[g] ELSE 0]

Min(a, b) == IF a < b THEN a ELSE b
Max(a, b) == IF a < b THEN b ELSE a

\* the ways of taking k rows out of the rows m of the groups
RECURSIVE Truncations(_, _, _)
Truncations(m, groups, k) ==
  IF groups = {} THEN {<<>>}
  ELSE LET g == CHOOSE x \in groups : TRUE
           rest == BagTotal(m, groups \ {g})
       IN UNION {{(g :> c) @@ b : b \in Truncations(m, groups \ {g}, k - c)} :
                 c \in Max(0, k - rest)..Min(m[g], k)}

\* query.limit(limit).all(): with no ORDER BY any `limit` of the matching
\* rows may come back; on an exception the result is [].
query_groundwater_data(tbl, dbOK, filters, limit) ==
  IF ~dbOK THEN {EmptyRows}
  ELSE LET m == Matching(tbl, filters)
       IN IF Total(m) <= limit THEN {m}
          ELSE Truncations(m, RowGroups, limit)

(* ------------------------------ values -------------------------------- *)
Algos == {"random_forest", "gradient_boosting", "linear_regression"}
\* the model_type argument; "svm" stands for any other string
ModelTypes == {"random_forest", "gradient_boosting", "linear", "all", "svm"}
\* mean cross-validated R2 of a candidate (cv_scores['r2_mean'])
R2Values == {0, 1}
\* how a joblib.dump ends: written; open() refused, file untouched;
\* file opened (truncated) and the write failed
DumpOutcomes == {"ok", "denied", "partial"}

NoFile == [kind |-> "none"]
Corrupt == [kind |-> "corrupt"]
NoModel == [kind |-> "none"]
NoMeta == [kind |-> "none"]

ModelFiles == Algos \X Keys

EncCols == <<"state", "district", "category">>
EncodedNames == {"state_encoded", "district_encoded", "category_encoded"}

\* np.unique sorts the classes; the code of a label is its rank
NameOrder == <<"Goa", "Idukki", "Kerala", "None", "North Goa", "Safe", "Unknown">>
Rank(v) == CHOOSE i \in 1..Len(NameOrder) : NameOrder[i] = v
Code(classes, v) == Cardinality({c \in classes : Rank(c) < Rank(v)})

(* --------------------- WaterLevelPredictor.__init__ ------------------- *)
\* water_predictor.py:21-30
NewMemory ==
  [models          |-> [k \in Keys |-> NoModel],
   model_metadata  |-> [k \in Keys |-> NoMeta],
   feature_columns |-> <<>>,
   scalers         |-> <<>>,
   label_encoders  |-> <<>>]

\* dict.update
DictUpdate(d, e) ==
  [k \in (DOMAIN d) \cup (DOMAIN e) |-> IF k \in DOMAIN e THEN e[k] ELSE d[k]]

(* -------------------------- _prepare_features ------------------------- *)
\* rows kept by df.dropna(subset=['water_level'])
ValidGroups(rows) == {g \in RowGroups : rows[g] > 0 /\ g.level}
ValidCount(rows) == Total([g \in RowGroups |-> IF g.level THEN rows[g] ELSE 0])

\* the values of a categorical column after fillna('Unknown')
ColumnValues(rows, col) ==
  {IF g[col] = None THEN Unknown ELSE g[col] : g \in ValidGroups(rows)}

\* water_predictor.py:186-272: the columns of features_df, in order
FeatureNames(nValid, hasGeo) ==
  <<"year", "years_since_2000", "month", "season", "month_sin", "month_cos">>
  \o (IF hasGeo THEN <<"latitude", "longitude", "distance_from_center">> ELSE <<>>)
  \o <<"state_encoded", "district_encoded", "category_encoded">>
  \o (IF nValid > LagMinRows THEN <<"water_level_lag_1", "water_level_lag_2">> ELSE <<>>)
  \o (IF nValid > RollingMinRows THEN <<"rolling_mean_3">> ELSE <<>>)
  \o (IF nValid > RollingWideMinRows THEN <<"rolling_mean_5">> ELSE <<>>)

NumericalCount(names) ==
  Cardinality({i \in 1..Len(names) : names[i] \notin EncodedNames})

\* water_predictor.py:230-241, one column: fit a new encoder, or map the
\* unseen values to 'Unknown' and transform with the encoder kept from an
\* earlier call (transform raises when a value is not among the classes)
EncodeColumn(encs, col, values) ==
  IF col \notin DOMAIN encs
  THEN [encs |-> DictUpdate(encs, (col :> values)), ok |-> TRUE]
  ELSE LET known == encs[col]
           mapped == {IF v \in known THEN v ELSE Unknown : v \in values}
       IN [encs |-> encs, ok |-> mapped \subseteq known]

RECURSIVE EncodeColumns(_, _, _)
EncodeColumns(encs, rows, i) ==
  IF i > Len(EncCols) THEN [encs |-> encs, ok |-> TRUE]
  ELSE LET r == EncodeColumn(encs, EncCols[i], ColumnValues(rows, EncCols[i]))
       IN IF r.ok THEN EncodeColumns(r.encs, rows, i + 1) ELSE r

\* water_predictor.py:277-284: fit a new scaler (fit_transform raises on an
\* empty frame, after the unfitted scaler was stored), or transform with
\* the scaler kept from an earlier call (raises on another column count)
ScaleColumns(scalers, k, nValid, run) ==
  IF "scaler" \notin DOMAIN scalers
  THEN IF nValid = 0
       THEN [scalers |-> ("scaler" :> [fit |-> 0, ncols |-> 0]), ok |-> FALSE]
       ELSE [scalers |-> ("scaler" :> [fit |-> run, ncols |-> k]), ok |-> TRUE]
  ELSE [scalers |-> scalers,
        ok |-> scalers["scaler"].fit # 0 /\ scalers["scaler"].ncols = k]

\* water_predictor.py:162-302.  X is the number of rows of the matrix, or
\* -1 for the (None, None, []) of the except branch.
_prepare_features(mem, rows, run) ==
  LET Prepared(nValid, enc, names, sc) ==
        IF ~enc.ok
        THEN [X |-> -1, names |-> <<>>,
              mem |-> [mem EXCEPT !.label_encoders = enc.encs]]
        ELSE IF ~sc.ok
        THEN [X |-> -1, names |-> <<>>,
              mem |-> [mem EXCEPT !.label_encoders = enc.encs,
                                  !.scalers = sc.scalers]]
        ELSE [X |-> nValid, names |-> names,
              mem |-> [mem EXCEPT !.label_encoders = enc.encs,
                                  !.scalers = sc.scalers]]
      Scaled(nValid, enc, names) ==
        Prepared(nValid, enc, names,
                 ScaleColumns(mem.scalers, NumericalCount(names), nValid, run))
  IN Scaled(ValidCount(rows),
            EncodeColumns(mem.label_encoders, rows, 1),
            FeatureNames(ValidCount(rows), \E g \in ValidGroups(rows) : g.geo))

(* ------------------------ _get_model_candidates ----------------------- *)
\* a selector table that falls back to random_forest for an unknown selector
CandidatesWithDefault(model_type) ==
  IF model_type \in {"all", "random_forest", "gradient_boosting", "linear"}
  THEN (IF model_type \in {"all", "random_forest"} THEN <<"random_forest">> ELSE <<>>)
       \o (IF model_type \in {"all", "gradient_boosting"} THEN <<"gradient_boosting">> ELSE <<>>)
       \o (IF model_type \in {"all", "linear"} THEN <<"linear_regression">> ELSE <<>>)
  ELSE <<"random_forest">>

\* water_predictor.py:328-353, in dict insertion order
_get_model_candidates(model_type) ==
  (IF model_type \in {"all", "random_forest"} THEN <<"random_forest">> ELSE <<>>)
  \o (IF model_type \in {"all", "gradient_boosting"} THEN <<"gradient_boosting">> ELSE <<>>)
  \o (IF model_type \in {"all", "linear"} THEN <<"linear_regression">> ELSE <<>>)

\* water_predictor.py:102-103: max() keeps the first of the largest
BestModel(results, r2) ==
  LET i == CHOOSE i \in 1..Len(results) :
             /\ \A j \in 1..Len(results) : r2[results[j]] <= r2[results[i]]
             /\ \A j \in 1..(i - 1) : r2[results[j]] < r2[results[i]]
  IN results[i]

\* joblib.dump(value, file)
Dump(old, new, outcome) ==
  CASE outcome = "ok"      -> new
    [] outcome = "denied"  -> old
    [] outcome = "partial" -> Corrupt

(* ----------------------- train_prediction_model ----------------------- *)
Failure(err) == [success |-> FALSE, error |-> err]

\* a loop that stops at the first candidate whose fit raises
CandidatesUntilFailure(model_type, fitOK) ==
  LET models == _get_model_candidates(model_type)
      stop == IF \A i \in 1..Len(models) : models[i] \in fitOK THEN Len(models) + 1
              ELSE CHOOSE i \in 1..Len(models) :
                      /\ models[i] \notin fitOK
                      /\ \A j \in 1..(i - 1) : models[j] \in fitOK
  IN SubSeq(models, 1, stop - 1)

\* water_predictor.py:64-93: the keys of model_results after the loop; a
\* candidate whose fit or evaluation raises is logged and left out
SurvivingCandidates(model_type, fitOK) ==
  SelectSeq(_get_model_candidates(model_type), LAMBDA a : a \in fitOK)

\* a row check that lets 99 rows through
InsufficientDataOffByOne(rows) == Total(rows) < MinTrainRecords - 1

\* water_predictor.py:42  if len(historical_data) < 100
InsufficientData(rows) == Total(rows) < MinTrainRecords

\* water_predictor.py:32-160.  disk = [model, meta]; the result carries the
\* returned payload, the predictor's fields and the files after the call.
train_prediction_model(mem, disk, region, model_type, rows, fitOK, r2, ioModel, ioMeta, run) ==
  LET model_key == IF region = None THEN National ELSE region
      \* lines 108-153, with the best model chosen
      Save(pf, best) ==
        LET blob == [kind |-> "model", run |-> run, algo |-> best,
                     nfeat |-> Len(pf.names)]
            mem1 == [pf.mem EXCEPT !.models[model_key] = blob,
                                   !.feature_columns = pf.names]
            disk1 == [disk EXCEPT
                        !.model[<<best, model_key>>] = Dump(@, blob, ioModel)]
            metadata == [kind |-> "meta", run |-> run, model_type |-> best,
                         region |-> model_key, feature_columns |-> pf.names,
                         scalers |-> pf.mem.scalers,
                         label_encoders |-> pf.mem.label_encoders]
            disk2 == [disk1 EXCEPT !.meta[model_key] = Dump(@, metadata, ioMeta)]
        IN IF ioModel # "ok"
           THEN [result |-> Failure("exception"), mem |-> mem1, disk |-> disk1]
           ELSE IF ioMeta # "ok"
           THEN [result |-> Failure("exception"), mem |-> mem1, disk |-> disk2]
           ELSE [result |-> [success |-> TRUE, error |-> None,
                             model_key |-> model_key, best_model |-> best],
                 mem |-> [mem1 EXCEPT !.model_metadata[model_key] = metadata],
                 disk |-> disk2]
      \* lines 51-106
      Fit(pf, results) ==
        IF pf.X = -1 \/ pf.X < MinValidRows
        THEN [result |-> Failure("feature_preparation_failed"),
              mem |-> pf.mem, disk |-> disk]
        ELSE IF results = <<>>
        THEN [result |-> Failure("all_models_failed"),
              mem |-> pf.mem, disk |-> disk]
        ELSE Save(pf, BestModel(results, r2))
  IN IF InsufficientData(rows)
     THEN [result |-> Failure("insufficient_data_need_100"),
           mem |-> mem, disk |-> disk]
     ELSE Fit(_prepare_features(mem, rows, run),
              SurvivingCandidates(model_type, fitOK))

(* ----------------------------- _load_model ---------------------------- *)
\* water_predictor.py:951-974.  Only random_forest_<key>.joblib is looked
\* for; a joblib.load that raises ends the call in the except branch with
\* the assignments made so far kept.
_load_model(mem, disk, model_key) ==
  LET model_file == disk.model[<<"random_forest", model_key>>]
      metadata_file == disk.meta[model_key]
      mem1 == [mem EXCEPT !.models[model_key] = model_file]
      mem2 == [mem1 EXCEPT
                 !.model_metadata[model_key] = metadata_file,
                 !.feature_columns = metadata_file.feature_columns,
                 !.scalers = DictUpdate(@, metadata_file.scalers),
                 !.label_encoders = DictUpdate(@, metadata_file.label_encoders)]
  IN IF model_file # NoFile /\ metadata_file # NoFile
     THEN IF model_file = Corrupt THEN [ok |-> FALSE, mem |-> mem]
          ELSE IF metadata_file = Corrupt THEN [ok |-> FALSE, mem |-> mem1]
          ELSE [ok |-> TRUE, mem |-> mem2]
     ELSE [ok |-> FALSE, mem |-> mem]

(* --------------------- _create_prediction_features -------------------- *)
NoVector == [kind |-> "none"]

\* water_predictor.py:711-729, one column: transform([value]), and on a
\* ValueError transform(['Unknown']); -1 when that raises too
EncodeValue(encs, col, value) ==
  IF value \in encs[col] THEN Code(encs[col], value)
  ELSE IF Unknown \in encs[col] THEN Code(encs[col], Unknown)
  ELSE -1

\* water_predictor.py:681-769.  `first` is the group of historical_data[0].
\* The vector is given by what determines its entries: the column order,
\* the date, the history, the codes of the encoded columns it holds and
\* the scaler applied to its numerical entries.
_create_prediction_features(mem, rows, first, state, district, day) ==
  LET encs == mem.label_encoders
      names == mem.feature_columns
      value == [c \in {"state", "district", "category"} |->
                  CASE c = "state" -> state
                    [] c = "district" -> district
                    [] c = "category" -> first.category]
      codes == [c \in DOMAIN encs |-> EncodeValue(encs, c, value[c])]
      used == {c \in DOMAIN encs :
                 \E i \in 1..Len(names) :
                    /\ names[i] \in EncodedNames
                    /\ names[i] = CASE c = "state" -> "state_encoded"
                                    [] c = "district" -> "district_encoded"
                                    [] c = "category" -> "category_encoded"}
      scaling == "scaler" \in DOMAIN mem.scalers /\ Len(names) > 0
                 /\ NumericalCount(names) > 0
      scaler == mem.scalers["scaler"]
  IN IF ~first.geo THEN NoVector              \* None - 20.5937 raises
     ELSE IF \E c \in DOMAIN encs : codes[c] = -1 THEN NoVector
     ELSE IF scaling /\ (scaler.fit = 0 \/ scaler.ncols # NumericalCount(names))
     THEN NoVector
     ELSE [kind |-> "vector", cols |-> names, day |-> day,
           rows |-> rows, first |-> first,
           codes |-> [c \in used |-> codes[c]],
           scaled_by |-> IF scaling THEN scaler.fit ELSE 0]

(* ------------------------ predict_water_levels ------------------------ *)
\* a forecast that never finds the history empty
HistoryNeverEmpty(rows) == FALSE

\* water_predictor.py:606  if not historical_data
NoHistory(rows) == Total(rows) = 0

\* a loop that leaves out the last step
KeptVectorsButLast(vectors) ==
  SelectSeq(SubSeq(vectors, 1, Len(vectors) - 1), LAMBDA v : v # NoVector)

\* water_predictor.py:616-627: the steps of the loop whose feature vector is
\* not None, in step order
KeptVectors(vectors) == SelectSeq(vectors, LAMBDA v : v # NoVector)

\* water_predictor.py:583-598: the state's model, else the national one
ResolveModel(mem, disk, state) ==
  LET Fallback(nat) == [ok |-> nat.ok, model_key |-> National, mem |-> nat.mem]
      Loaded(s) ==
        IF s.ok THEN [ok |-> TRUE, model_key |-> state, mem |-> s.mem]
        ELSE IF s.mem.models[National] # NoModel
        THEN [ok |-> TRUE, model_key |-> National, mem |-> s.mem]
        ELSE Fallback(_load_model(s.mem, disk, National))
  IN IF mem.models[state] # NoModel
     THEN [ok |-> TRUE, model_key |-> state, mem |-> mem]
     ELSE Loaded(_load_model(mem, disk, state))

\* water_predictor.py:612-647, one step of the loop
PredictionStep(mem, model_key, vector) ==
  [day |-> vector.day,
   model |-> mem.models[model_key],
   vector |-> vector,
   \* _calculate_prediction_confidence reads model_metadata[model_key]
   interval_from |-> IF mem.model_metadata[model_key] = NoMeta THEN 0
                     ELSE mem.model_metadata[model_key].run]

\* water_predictor.py:576-679
predict_water_levels(mem, disk, state, district, prediction_months, start_date, rows, first) ==
  LET \* lines 616-647: the steps whose feature vector is not None
      Loop(res, vectors) ==
        LET kept == KeptVectors(vectors)
            \* model.predict raises on a vector of another length than fitted
            raises == /\ kept # <<>>
                      /\ Len(res.mem.feature_columns)
                           # res.mem.models[res.model_key].nfeat
        IN IF raises
           THEN [result |-> Failure("exception"), mem |-> res.mem,
                 model_key |-> res.model_key]
           ELSE [result |-> [success |-> TRUE, error |-> None,
                             model_key_used |-> res.model_key,
                             predictions |->
                               [j \in 1..Len(kept) |->
                                  PredictionStep(res.mem, res.model_key, kept[j])]],
                 mem |-> res.mem, model_key |-> res.model_key]
      Resolved(res) ==
        IF ~res.ok
        THEN [result |-> Failure("no_trained_model"), mem |-> res.mem,
              model_key |-> None]
        ELSE IF NoHistory(rows)
        THEN [result |-> Failure("no_historical_data"), mem |-> res.mem,
              model_key |-> res.model_key]
        ELSE Loop(res, [i \in 1..prediction_months |->
                          _create_prediction_features(
                             res.mem, rows, first, state, district,
                             start_date + StepDays * (i - 1))])
  IN Resolved(ResolveModel(mem, disk, state))

(* ------------------- tools/prediction_tool.py ------------------------- *)
ToolAlgos == <<"random_forest", "gradient_boosting">>

\* prediction_tool.py:126-148: the columns the tool's models are fit on
ToolFeatureNames(n) ==
  <<"state", "district", "year", "month", "latitude", "longitude",
    "category", "season", "year_month">>
  \o (IF n > LagMinRows THEN <<"water_level_lag1", "water_level_lag2">> ELSE <<>>)

\* prediction_tool.py:77-95: fit, evaluate and save every candidate in
\* turn; a fit or a dump that raises ends the loop (and the call)
RECURSIVE ToolFitLoop(_, _, _, _, _, _, _)
ToolFitLoop(disk, i, key, nfeat, fitOK, io, run) ==
  IF i > Len(ToolAlgos) THEN [ok |-> TRUE, disk |-> disk]
  ELSE LET a == ToolAlgos[i]
           blob == [kind |-> "model", run |-> run, algo |-> a, nfeat |-> nfeat]
           disk1 == [disk EXCEPT !.model[<<a, key>>] = Dump(@, blob, io[a])]
       IN IF a \notin fitOK THEN [ok |-> FALSE, disk |-> disk]
          ELSE IF io[a] # "ok" THEN [ok |-> FALSE, disk |-> disk1]
          ELSE ToolFitLoop(disk1, i + 1, key, nfeat, fitOK, io, run)

\* prediction_tool.py:98: min() keeps the first of the smallest mse
ToolBestModel(mse) ==
  IF mse["gradient_boosting"] < mse["random_forest"]
  THEN "gradient_boosting" ELSE "random_forest"

\* prediction_tool.py:25-124
tool_train_prediction_model(tmodels, disk, region, rows, fitOK, mse, io, run) ==
  LET n == Total(rows)
      key == IF region = None THEN National ELSE region
      nfeat == Len(ToolFeatureNames(n))
      loop == ToolFitLoop(disk, 1, key, nfeat, fitOK, io, run)
      best == ToolBestModel(mse)
      blob == [kind |-> "model", run |-> run, algo |-> best, nfeat |-> nfeat]
  IN IF n < MinTrainRecords
     THEN [result |-> Failure("insufficient_data_need_100"),
           tmodels |-> tmodels, disk |-> disk]
     ELSE IF ValidCount(rows) = 0           \* train_test_split raises
     THEN [result |-> Failure("exception"), tmodels |-> tmodels, disk |-> disk]
     ELSE IF ~loop.ok
     THEN [result |-> Failure("exception"), tmodels |-> tmodels, disk |-> loop.disk]
     ELSE [result |-> [success |-> TRUE, error |-> None, region |-> key,
                       best_model |-> best],
           tmodels |-> [tmodels EXCEPT ![key] = blob], disk |-> loop.disk]

\* prediction_tool.py:230-333.  predictOK: whether model.predict accepts
\* the frame built at 269-290 (it depends on the installed scikit-learn).
tool_predict_water_levels(tmodels, disk, state, district, prediction_months, trainRows, fitOK, mse, io, run, recent, predictOK) ==
  LET model_file == disk.model[<<"random_forest", state>>]
      tr == tool_train_prediction_model(tmodels, disk, state, trainRows,
                                        fitOK, mse, io, run)
      trains == tmodels[state] = NoModel /\ model_file = NoFile
      tm == IF tmodels[state] # NoModel THEN tmodels
            ELSE IF model_file # NoFile
                 THEN [tmodels EXCEPT ![state] = model_file]
                 ELSE tr.tmodels
      d == IF trains THEN tr.disk ELSE disk
  IN IF tmodels[state] = NoModel /\ model_file = Corrupt   \* joblib.load raises
     THEN [result |-> Failure("exception"), tmodels |-> tmodels, disk |-> disk,
           trained |-> FALSE]
     ELSE IF trains /\ ~tr.result.success
     THEN [result |-> tr.result, tmodels |-> tm, disk |-> d, trained |-> TRUE]
     ELSE IF Total(recent) = 0
     THEN [result |-> Failure("no_historical_data"), tmodels |-> tm, disk |-> d,
           trained |-> trains]
     ELSE IF prediction_months > 0 /\ ~predictOK
     THEN [result |-> Failure("exception"), tmodels |-> tm, disk |-> d,
           trained |-> trains]
     ELSE [result |-> [success |-> TRUE, error |-> None,
                       predictions |-> prediction_months],
           tmodels |-> tm, disk |-> d, trained |-> trains]

(* ------------------------------- state -------------------------------- *)
VARIABLES
  db,               \* the groundwater_data table: row group -> number of rows
  faulty,           \* whether writes to the models directory can fail
  run,              \* training runs started so far
  models,           \* WaterLevelPredictor.models
  model_metadata,   \* WaterLevelPredictor.model_metadata
  feature_columns,  \* WaterLevelPredictor.feature_columns
  scalers,          \* WaterLevelPredictor.scalers
  label_encoders,   \* WaterLevelPredictor.label_encoders
  tool_models,      \* models of the predictor of tools/prediction_tool.py
  model_files,      \* <algorithm>_<key>.joblib in the models directory
  metadata_files,   \* metadata_<key>.joblib in the models directory
  jobs,             \* training jobs in flight in other workers: where each is
  last              \* the call made last: its arguments and what it returned

vars == <<db, faulty, run, models, model_metadata, feature_columns, scalers,
          label_encoders, tool_models, model_files, metadata_files, jobs,
          last>>

wp_vars == <<models, model_metadata, feature_columns, scalers, label_encoders>>

Mem == [models |-> models, model_metadata |-> model_metadata,
        feature_columns |-> feature_columns, scalers |-> scalers,
        label_encoders |-> label_encoders]

Disk == [model |-> model_files, meta |-> metadata_files]

SetMem(mem) ==
  /\ models' = mem.models
  /\ model_metadata' = mem.model_metadata
  /\ feature_columns' = mem.feature_columns
  /\ scalers' = mem.scalers
  /\ label_encoders' = mem.label_encoders

SetDisk(disk) ==
  /\ model_files' = disk.model
  /\ metadata_files' = disk.meta

Jobs == 1..MaxJobs
\* a worker that has not been handed a training job
NoJob == [pc |-> "idle", key |-> None, best |-> None]

InitState(isFaulty) ==
  /\ db \in [RowGroups -> RowCounts]
  /\ faulty = isFaulty
  /\ run = 0
  /\ models = NewMemory.models
  /\ model_metadata = NewMemory.model_metadata
  /\ feature_columns = NewMemory.feature_columns
  /\ scalers = NewMemory.scalers
  /\ label_encoders = NewMemory.label_encoders
  /\ tool_models = [k \in Keys |-> NoModel]
  /\ model_files = [f \in ModelFiles |-> NoFile]
  /\ metadata_files = [k \in Keys |-> NoFile]
  /\ jobs = [j \in Jobs |-> NoJob]
  /\ last = [op |-> "init"]

Init == InitState(FALSE)

\* what a joblib.dump can do on this disk
Outcomes == IF faulty THEN DumpOutcomes ELSE {"ok"}

NoR2 == [a \in Algos |-> 0]

\* a call of WaterLevelPredictor.train_prediction_model
TrainCall(region, model_type, rows, fitOK, r2, ioModel, ioMeta) ==
  \E out \in {train_prediction_model(Mem, Disk, region, model_type, rows,
                                      fitOK, r2, ioModel, ioMeta, run + 1)} :
     /\ SetMem(out.mem)
     /\ SetDisk(out.disk)
     /\ run' = IF InsufficientData(rows) THEN run ELSE run + 1
     /\ last' = [op |-> "train", region |-> region, model_type |-> model_type,
                 n |-> Total(rows), fresh |-> Mem = NewMemory,
                 fits |-> fitOK # {},
                 skipped |-> \E i \in 1..Len(_get_model_candidates(model_type)) :
                                _get_model_candidates(model_type)[i] \notin fitOK,
                 written |-> ioModel = "ok" /\ ioMeta = "ok",
                 result |-> out.result, run |-> run']
     /\ UNCHANGED <<db, faulty, tool_models, jobs>>

Train ==
  /\ run < MaxRuns
  /\ \E region \in Regions, dbOK \in BOOLEAN :
       \E rows \in query_groundwater_data(db, dbOK,
                     [state |-> region, district |-> None], TrainLimit) :
          IF InsufficientData(rows)
          THEN TrainCall(region, "random_forest", rows, {}, NoR2, "ok", "ok")
          ELSE \E model_type \in ModelTypes :
               \E fitOK \in SUBSET {a \in Algos :
                                      \E i \in 1..Len(_get_model_candidates(model_type)) :
                                         _get_model_candidates(model_type)[i] = a} :
                  IF fitOK = {}
                  THEN TrainCall(region, model_type, rows, fitOK, NoR2, "ok", "ok")
                  ELSE \E r2 \in {f \in [Algos -> R2Values] :
                                    \A a \in Algos \ fitOK : f[a] = 0},
                          ioModel \in Outcomes :
                       \E ioMeta \in IF ioModel = "ok" THEN Outcomes ELSE {"ok"} :
                          TrainCall(region, model_type, rows, fitOK, r2,
                                    ioModel, ioMeta)

\* the rows of a query result that can stand first
FirstRows(rows) ==
  IF Total(rows) = 0 THEN {CHOOSE g \in RowGroups : TRUE}
  ELSE {g \in RowGroups : rows[g] > 0}

StartDates == {0}

\* the district argument of a forecast: a district name, or a part of one
\* (the store matches it with ILIKE '%...%')
DistrictArgs == Districts \cup {"Goa"}

\* a call of WaterLevelPredictor.predict_water_levels
Predict ==
  \E state \in States, district \in DistrictArgs, months \in {MaxMonths},
     start_date \in StartDates, dbOK \in BOOLEAN :
    \E rows \in query_groundwater_data(db, dbOK,
                  [state |-> state, district |-> district], ForecastLimit) :
      \E first \in FirstRows(rows) :
        \E out \in {predict_water_levels(Mem, Disk, state, district, months,
                                          start_date, rows, first)} :
           /\ SetMem(out.mem)
           /\ last' = [op |-> "predict", state |-> state, district |-> district,
                       months |-> months, start_date |-> start_date,
                       rows |-> rows, first |-> first,
                       fresh |-> Mem = NewMemory,
                       cached |-> models[state] # NoModel,
                       model_key |-> out.model_key,
                       result |-> out.result]
           /\ UNCHANGED <<db, faulty, run, tool_models, model_files,
                          metadata_files, jobs>>

\* a new WaterLevelPredictor object (a new process): __init__
NewPredictor ==
  /\ Mem # NewMemory
  /\ SetMem(NewMemory)
  /\ last' = [op |-> "new"]
  /\ UNCHANGED <<db, faulty, run, tool_models, model_files, metadata_files,
                 jobs>>

Next == Train \/ Predict \/ NewPredictor

\* the predictor of ml_models/water_predictor.py on a reliable disk
Spec == Init /\ [][Next]_vars

\* the same predictor on a disk whose writes can fail
InitFaulty == InitState(TRUE)

FaultSpec == InitFaulty /\ [][Next]_vars

(* ------------------ the predictor of prediction_tool.py --------------- *)
ToolAlgoSet == {ToolAlgos[i] : i \in 1..Len(ToolAlgos)}
NoMse == [a \in ToolAlgoSet |-> 0]
AllWritten == [a \in ToolAlgoSet |-> "ok"]

\* the inputs of one training by the tool: which fits succeed, the test
\* mse of each candidate, how each dump ends
ToolTrainInputs(rows) ==
  IF Total(rows) < MinTrainRecords
  THEN {[fitOK |-> {}, mse |-> NoMse, io |-> AllWritten]}
  ELSE [fitOK : SUBSET ToolAlgoSet, mse : [ToolAlgoSet -> R2Values],
        io : [ToolAlgoSet -> Outcomes]]

\* a call of train_prediction_model of prediction_tool.py
ToolTrain ==
  /\ run < MaxRuns
  /\ \E region \in Regions, dbOK \in BOOLEAN :
       \E rows \in query_groundwater_data(db, dbOK,
                     [state |-> region, district |-> None], ToolTrainLimit) :
         \E in \in ToolTrainInputs(rows) :
           \E out \in {tool_train_prediction_model(tool_models, Disk, region, rows,
                           in.fitOK, in.mse, in.io, run + 1)} :
             /\ tool_models' = out.tmodels
             /\ SetDisk(out.disk)
             /\ run' = IF Total(rows) >= MinTrainRecords THEN run + 1 ELSE run
             /\ last' = [op |-> "tool_train", region |-> region,
                         n |-> Total(rows), result |-> out.result, run |-> run']
             /\ UNCHANGED <<db, faulty, wp_vars, jobs>>

\* a call of predict_water_levels of prediction_tool.py
ToolPredict ==
  \E state \in States, district \in Districts, dbOK \in BOOLEAN,
     predictOK \in BOOLEAN :
    \E trainRows \in query_groundwater_data(db, dbOK,
                       [state |-> state, district |-> None], ToolTrainLimit),
       recent \in query_groundwater_data(db, dbOK,
                       [state |-> state, district |-> district], ToolForecastLimit) :
      \E in \in ToolTrainInputs(trainRows) :
        \E out \in {tool_predict_water_levels(tool_models, Disk, state, district,
                        MaxMonths, trainRows, in.fitOK, in.mse, in.io, run + 1,
                        recent, predictOK)} :
          /\ out.trained /\ Total(trainRows) >= MinTrainRecords => run < MaxRuns
          /\ ~out.trained => in = [fitOK |-> {}, mse |-> NoMse, io |-> AllWritten]
          /\ tool_models' = out.tmodels
          /\ SetDisk(out.disk)
          /\ run' = IF out.trained /\ Total(trainRows) >= MinTrainRecords
                    THEN run + 1 ELSE run
          /\ last' = [op |-> "tool_predict", state |-> state,
                      district |-> district, trained |-> out.trained,
                      result |-> out.result, run |-> run']
          /\ UNCHANGED <<db, faulty, wp_vars, jobs>>

\* a new predictor object of prediction_tool.py: __init__
NewToolPredictor ==
  /\ tool_models # [k \in Keys |-> NoModel]
  /\ tool_models' = [k \in Keys |-> NoModel]
  /\ last' = [op |-> "tool_new"]
  /\ UNCHANGED <<db, faulty, run, wp_vars, model_files, metadata_files,
                 jobs>>

NextTool == Next \/ ToolTrain \/ ToolPredict \/ NewToolPredictor

\* both predictor classes on the shared models directory
ToolSpec == Init /\ [][NextTool]_vars

(* ------------- training jobs in several worker processes -------------- *)
\* A worker process runs train_prediction_model on a predictor of its own
\* (water_predictor.py:32-160) and shares only the models directory with
\* the others.  Nothing in lines 108-134 takes a lock, so the two
\* joblib.dump calls of one job interleave freely with those of another.

\* lines 32-106 of a job: fetch, features, fit, selection; the job holds the
\* two objects it is about to dump
StartJob(j) ==
  /\ jobs[j].pc = "idle"
  /\ run < MaxRuns
  /\ \E region \in Regions, model_type \in ModelTypes :
       \E rows \in query_groundwater_data(db, TRUE,
                     [state |-> region, district |-> None], TrainLimit) :
         \E fitOK \in SUBSET {a \in Algos :
                                \E i \in 1..Len(_get_model_candidates(model_type)) :
                                   _get_model_candidates(model_type)[i] = a} :
           \E r2 \in {f \in [Algos -> R2Values] : \A a \in Algos \ fitOK : f[a] = 0} :
             \E out \in {train_prediction_model(NewMemory, Disk, region, model_type,
                                                 rows, fitOK, r2, "ok", "ok", run + 1)} :
               /\ out.result.success
               /\ jobs' = [jobs EXCEPT ![j] =
                             [pc |-> "fitted", key |-> out.result.model_key,
                              best |-> out.result.best_model,
                              model |-> out.disk.model[<<out.result.best_model,
                                                         out.result.model_key>>],
                              metadata |-> out.disk.meta[out.result.model_key]]]
               /\ run' = run + 1
               /\ last' = [op |-> "job_start", job |-> j, run |-> run']
               /\ UNCHANGED <<db, faulty, wp_vars, tool_models, model_files,
                              metadata_files>>

\* line 117: joblib.dump(best_model, model_file)
DumpModel(j) ==
  /\ jobs[j].pc = "fitted"
  /\ model_files' = [model_files EXCEPT ![<<jobs[j].best, jobs[j].key>>] =
                       Dump(@, jobs[j].model, "ok")]
  /\ jobs' = [jobs EXCEPT ![j].pc = "model_saved"]
  /\ last' = [op |-> "job_dump_model", job |-> j]
  /\ UNCHANGED <<db, faulty, run, wp_vars, tool_models, metadata_files>>

\* line 133: joblib.dump(metadata, metadata_file)
DumpMetadata(j) ==
  /\ jobs[j].pc = "model_saved"
  /\ metadata_files' = [metadata_files EXCEPT ![jobs[j].key] =
                          Dump(@, jobs[j].metadata, "ok")]
  /\ jobs' = [jobs EXCEPT ![j].pc = "done"]
  /\ last' = [op |-> "job_dump_metadata", job |-> j]
  /\ UNCHANGED <<db, faulty, run, wp_vars, tool_models, model_files>>

\* lines 134-153: the call returns and the worker is free again
JobReturns(j) ==
  /\ jobs[j].pc = "done"
  /\ jobs' = [jobs EXCEPT ![j] = NoJob]
  /\ last' = [op |-> "job_return", job |-> j]
  /\ UNCHANGED <<db, faulty, run, wp_vars, tool_models, model_files,
                 metadata_files>>

RaceNext ==
  \E j \in Jobs : StartJob(j) \/ DumpModel(j) \/ DumpMetadata(j) \/ JobReturns(j)

\* training jobs of several workers on the shared models directory
RaceSpec == Init /\ [][RaceNext]_vars

(* --------------------------- cleanup_old_models ----------------------- *)
\* os.path.getctime of a file of the models directory, on the clock of the
\* training runs: run r dumps its model file (line 117) and then its
\* metadata file (line 133), and run r + 1 comes after both
FileTime(file) == IF file.kind = "model" THEN 2 * file.run ELSE 2 * file.run + 1

\* water_predictor.py:993-1000: every .joblib file older than the cutoff is
\* removed, each file on its own
RemoveOld(files, cutoff) ==
  [f \in DOMAIN files |->
     IF files[f] # NoFile /\ FileTime(files[f]) < cutoff THEN NoFile ELSE files[f]]

\* a call of cleanup_old_models (lines 987-1013); days_old and the time of
\* the call set the cutoff, and the predictor's memory is left alone
Cleanup ==
  /\ \E cutoff \in 1..(2 * MaxRuns + 2) :
       /\ model_files' = RemoveOld(model_files, cutoff)
       /\ metadata_files' = RemoveOld(metadata_files, cutoff)
       /\ last' = [op |-> "cleanup", cutoff |-> cutoff,
                   result |-> [success |-> TRUE, error |-> None,
                               count |-> Cardinality({f \in ModelFiles :
                                                        model_files'[f] # model_files[f]})
                                         + Cardinality({k \in Keys :
                                                          metadata_files'[k] # metadata_files[k]})]]
  /\ UNCHANGED <<db, faulty, run, wp_vars, tool_models, jobs>>

CleanupNext == Next \/ Cleanup

\* the predictor with its maintenance call
CleanupSpec == Init /\ [][CleanupNext]_vars

(* ------------------ the pure functions of the pipeline ---------------- *)
\* water_predictor.py:317-326.  X is given by the year of each row, in the
\* order the rows came back from the store; int() truncates.
_time_series_split(X) ==
  LET split_index == (Len(X) * (100 - TestPercent)) \div 100
  IN [train |-> SubSeq(X, 1, split_index),
      test  |-> SubSeq(X, split_index + 1, Len(X))]

\* the years of the rows
Years == {2020, 2021, 2022}

\* calendar of datetime: a date is a year and a day of that year
IsLeap(y) == (y % 4 = 0 /\ y % 100 # 0) \/ y % 400 = 0
DaysInYear(y) == IF IsLeap(y) THEN 366 ELSE 365
MonthLengths(y) ==
  <<31, IF IsLeap(y) THEN 29 ELSE 28, 31, 30, 31, 30, 31, 31, 30, 31, 30, 31>>

RECURSIVE DaysBefore(_, _)
\* days of year y before month m
DaysBefore(y, m) ==
  IF m = 1 THEN 0 ELSE DaysBefore(y, m - 1) + MonthLengths(y)[m - 1]

\* datetime.month
MonthOf(date) ==
  CHOOSE m \in 1..12 :
    /\ DaysBefore(date.year, m) < date.day
    /\ date.day <= DaysBefore(date.year, m) + MonthLengths(date.year)[m]

RECURSIVE Normalize(_, _)
Normalize(y, d) ==
  IF d <= DaysInYear(y) THEN [year |-> y, day |-> d]
  ELSE Normalize(y + 1, d - DaysInYear(y))

\* start_date + timedelta(days=n)
AddDays(date, n) == Normalize(date.year, date.day + n)

\* water_predictor.py:616-617, 640-641: the year and month reported for
\* each step of a forecast of `months` steps
prediction_dates(start_date, months) ==
  [i \in 1..months |->
     [year  |-> AddDays(start_date, StepDays * (i - 1)).year,
      month |-> MonthOf(AddDays(start_date, StepDays * (i - 1)))]]

\* Numbers: a water level or an rmse is an integer count of 0.0001 m, an
\* interval bound an integer count of 0.000001 m, a rounded value an integer
\* count of 0.01 m.
\* round(x, 2) of a value given in units of 0.000001: to the nearest
\* hundredth, a tie going to the even one
Round2(x) ==
  LET q == x \div 10000
      r == x % 10000
  IN IF 2 * r < 10000 THEN q
     ELSE IF 2 * r > 10000 THEN q + 1
     ELSE IF q % 2 = 0 THEN q ELSE q + 1

\* an interval computed without the prediction at its centre
IntervalAroundZero(prediction, metrics) ==
  [lower |-> 0 - ConfidenceFactor * DefaultRmse,
   upper |-> ConfidenceFactor * DefaultRmse]

\* water_predictor.py:771-788.  metrics is model_metadata[key]['metrics']:
\* with an rmse, without one (or no metadata at all), or of a shape that
\* makes the computation raise.
_calculate_prediction_confidence(prediction, metrics) ==
  IF metrics.kind = "raises"
  THEN [lower |-> 100 * prediction - FallbackBand * 1000000,
        upper |-> 100 * prediction + FallbackBand * 1000000]
  ELSE LET rmse == IF metrics.kind = "rmse" THEN metrics.rmse ELSE DefaultRmse
           confidence_range == ConfidenceFactor * rmse
       IN [lower |-> 100 * prediction - confidence_range,
           upper |-> 100 * prediction + confidence_range]

\* predicted levels tried (negative, zero, near a rounding tie, large)
\* water_predictor.py:684-744: the entries of the feature dictionary that
\* come from the history (recent_data is historical_data[0]); an entry the
\* history is too short for is left out of the dictionary and becomes the
\* 0 of lines 747-752 in the vector
HistoryFeatures(historical_data) ==
  LET n == Len(historical_data)
      level == [i \in 1..n |-> historical_data[i].water_level]
  IN [latitude |-> historical_data[1].latitude,
      longitude |-> historical_data[1].longitude,
      category |-> historical_data[1].category,
      water_level_lag_1 |-> level[1],
      water_level_lag_2 |-> IF n >= 2 THEN level[2] ELSE 0,
      rolling_mean_3 |-> IF n >= 3 THEN (level[1] + level[2] + level[3]) \div 3
                         ELSE 0,
      rolling_mean_5 |-> IF n >= 5
                         THEN (level[1] + level[2] + level[3] + level[4] + level[5]) \div 5
                         ELSE 0]

\* a loop that takes the lag of a step from the step before it
StepFeaturesAutoregressive(historical_data, predictions) ==
  IF predictions = <<>> THEN HistoryFeatures(historical_data)
  ELSE [HistoryFeatures(historical_data) EXCEPT
          !.water_level_lag_1 = predictions[Len(predictions)],
          !.water_level_lag_2 = HistoryFeatures(historical_data).water_level_lag_1]

\* water_predictor.py:616-623: the call of _create_prediction_features in
\* the loop, where `predictions` holds the values of the earlier steps; it
\* is handed historical_data and the date only
StepFeatures(historical_data, predictions) == HistoryFeatures(historical_data)

\* numpy's NaN: a missing water level, a lag with no row behind it
NaN == -1

\* LagMinRows rows of one more location, oldest first, all with a level
Padding == [i \in 1..LagMinRows |-> [loc |-> 3, t |-> i, water_level |-> 1000 + i]]

\* rows kept by df.dropna(subset=['water_level']) (lines 175-176), by
\* their index labels, which dropna leaves as they were
KeptLabels(data) == {i \in 1..Len(data) : data[i].water_level # NaN}

\* water_predictor.py:245-251: the label in df of the row that stands at
\* position q of df_sorted, the frame sorted by location and date and
\* renumbered by reset_index(drop=True)
SortedRow(data, kept, q) ==
  CHOOSE i \in kept :
     Cardinality({j \in kept :
                    \/ data[j].loc < data[i].loc
                    \/ data[j].loc = data[i].loc /\ data[j].t < data[i].t}) = q - 1

\* line 256: groupby(['state', 'district'])['water_level'].shift(lag), at
\* position q of df_sorted
Shifted(data, kept, lag, q) ==
  IF q <= lag THEN NaN
  ELSE LET now == data[SortedRow(data, kept, q)]
           before == data[SortedRow(data, kept, q - lag)]
       IN IF before.loc = now.loc THEN before.water_level ELSE NaN

\* water_predictor.py:243-258: the value of features_df[lag_col] for the
\* row of df with index label i.  The assignment features_df[lag_col] =
\* <series> aligns the series, indexed by the positions of df_sorted, with
\* features_df, indexed by the labels of df: label i receives the entry at
\* position i, and NaN when the series has no such position.
LagColumn(data, lag, i) ==
  LET n == Cardinality(KeptLabels(data))
  IN IF n <= LagMinRows \/ i > n THEN NaN
     ELSE Shifted(data, KeptLabels(data), lag, i)

RECURSIVE SumSeq(_)
SumSeq(x) == IF x = <<>> THEN 0 ELSE Head(x) + SumSeq(Tail(x))

\* |prediction - mean(levels)| <= k * std(levels), with numpy's population
\* standard deviation, in whole numbers: n = len, S = sum, Q = sum of squares,
\* (n*prediction - S)^2 <= k^2 * (n*Q - S^2)
WithinSigmas(prediction, levels, k) ==
  LET n == Len(levels)
      S == SumSeq(levels)
      Q == SumSeq([i \in 1..n |-> levels[i] * levels[i]])
  IN (n * prediction - S) * (n * prediction - S) <= k * k * (n * Q - S * S)

\* water_predictor.py:790-817.  water_levels are the 'water_level' values
\* of historical_data in order; the comprehension of line 797 keeps those
\* of the first five rows that are truthy, so a level of 0 is left out.
_assess_prediction_quality(prediction, water_levels) ==
  LET recent_levels == SelectSeq(SubSeq(water_levels, 1, Min(5, Len(water_levels))),
                                 LAMBDA w : w # 0)
  IN IF water_levels = <<>> THEN "low"
     ELSE IF recent_levels = <<>> THEN "low"
     ELSE IF WithinSigmas(prediction, recent_levels, 1) THEN "high"
     ELSE IF WithinSigmas(prediction, recent_levels, 2) THEN "medium"
     ELSE "low"

\* water_predictor.py:884-949: the `action` of every recommendation, in
\* order.  Levels are whole metres; a mean is compared through the sums.
_generate_prediction_recommendations(predictions) ==
  LET n == Len(predictions)
      levels == [i \in 1..n |-> predictions[i].predicted_water_level]
      Of(season) == SelectSeq(predictions, LAMBDA q : q.season = season)
      SumOf(season) ==
        SumSeq([i \in 1..Len(Of(season)) |-> Of(season)[i].predicted_water_level])
      low_quality == Len(SelectSeq(predictions,
                                   LAMBDA q : q.prediction_quality = "low"))
  IN IF n = 0 THEN <<>>
     ELSE (IF levels[n] < levels[1] - 2
           THEN <<"Implement water conservation measures">> ELSE <<>>)
          \o (IF \E i \in 1..n : levels[i] < -20
              THEN <<"Increase monitoring frequency">> ELSE <<>>)
          \o (IF /\ Of("Monsoon") # <<>> /\ Of("Summer") # <<>>
                 /\ SumOf("Summer") * Len(Of("Monsoon"))
                      < (SumOf("Monsoon") - 3 * Len(Of("Monsoon"))) * Len(Of("Summer"))
              THEN <<"Plan for summer water stress">> ELSE <<>>)
          \o (IF 2 * low_quality > n
              THEN <<"Validate predictions with field observations">> ELSE <<>>)
          \o <<"Use predictions for long-term planning">>

Levels == {-123456, -50, 0, 49, 50, 51, 150, 123450}
\* rmse values tried: _calculate_metrics rounds sqrt(mse), never negative
RmseValues == {0, 1, 25, 26, 51, 12345}

ConfidenceInputs ==
  {[op |-> "level", prediction |-> p, metrics |-> m] :
     p \in Levels,
     m \in {[kind |-> "rmse", rmse |-> r] : r \in RmseValues}
           \cup {[kind |-> "none", rmse |-> 0], [kind |-> "raises", rmse |-> 0]}}

\* the start dates tried: every day of a common year and of a leap year
StartYears == {2023, 2024}

SplitInputs ==
  {[op |-> "rows", years |-> X] :
     X \in UNION {[1..n -> Years] : n \in 1..MaxRows}}

DateInputs ==
  {[op |-> "start", start_date |-> [year |-> y, day |-> d], months |-> n] :
     y \in StartYears, d \in 1..366, n \in 1..MaxMonths}

\* the scores of the candidates of one training: which candidates were fit
\* (water_predictor.py:64-93), the r2_mean of the cross-validation of each
\* and the mse of each on the test split
SelectionInputs ==
  {[op |-> "scores", model_type |-> t, fitted |-> ok, r2_mean |-> r, mse |-> m] :
     t \in ModelTypes, ok \in (SUBSET Algos) \ {{}},
     r \in [Algos -> R2Values], m \in [Algos -> R2Values]}

\* the k-th observation of one location in the store, oldest first: half a
\* year apart, each with a water level, a category and a position of its own
Observation(k) ==
  [year |-> 2020 + (k - 1) \div 2, month |-> 1 + 6 * ((k - 1) % 2),
   water_level |-> 15 * k,
   category |-> IF k % 2 = 0 THEN "Safe" ELSE "Critical",
   latitude |-> k, longitude |-> 70 + k]

\* what query.limit(100).all() can return for the location: with no ORDER BY
\* (postgis_manager.py:149) the rows come in any order
Histories ==
  {[i \in 1..Len(h) |-> Observation(h[i])] :
     h \in {x \in UNION {[1..n -> 1..MaxRows] : n \in 1..MaxRows} :
              \A i, j \in 1..Len(x) : i # j => x[i] # x[j]}}

\* values model.predict returns, none of them a water level of the store
PredictedLevels == {1, 2}

HistoryInputs ==
  {[op |-> "history", historical_data |-> h, predicted |-> p] :
     h \in Histories, p \in [1..MaxMonths -> PredictedLevels]}

\* rows of a training frame: two locations (numbered in the sort order of
\* their (state, district)), two dates each, the water level of a row a
\* number of its own or missing
FrameRows ==
  UNION {{[loc |-> l, t |-> t, water_level |-> 10 * l + t],
          [loc |-> l, t |-> t, water_level |-> NaN]} : l \in 1..2, t \in 1..2}

\* the frames tried: up to three rows of distinct (location, date) in any
\* order, followed by the rows of a third location, oldest first, that take
\* the frame over the 50 rows the lag features need
FrameInputs ==
  {[op |-> "frame", data |-> d] :
     d \in {x \in UNION {[1..n -> FrameRows] : n \in 1..3} :
              \A i, j \in 1..Len(x) :
                 i # j => (x[i].loc # x[j].loc \/ x[i].t # x[j].t)}}

\* water levels of a history (metres below ground; 0 is a level at the surface)
ReadingValues == {0, 10, 20}

QualityInputs ==
  {[op |-> "readings", prediction |-> q, water_levels |-> w] :
     q \in {0, 4, 10, 16, 40},
     w \in UNION {[1..n -> ReadingValues] : n \in 1..MaxRows}}

\* the predictions a forecast hands to its recommendations: one entry for
\* each step that was not skipped, none when every step was
PredictionLists ==
  UNION {[1..n -> [predicted_water_level : {-25, 0, 5},
                   season : {"Winter", "Summer", "Monsoon"},
                   prediction_quality : {"high", "low"}]] : n \in 0..MaxMonths}

RecommendationInputs == {[op |-> "predictions", predictions |-> x] : x \in PredictionLists}

FunctionInputs ==
  SplitInputs \cup ConfidenceInputs \cup SelectionInputs \cup HistoryInputs
  \cup FrameInputs \cup QualityInputs \cup RecommendationInputs
  \cup {i \in DateInputs : i.start_date.day <= DaysInYear(i.start_date.year)}

\* a predictor object with the inputs of one function call at hand
FunctionInit ==
  /\ db = [g \in RowGroups |-> MinTrainRecords]
  /\ faulty = FALSE
  /\ run = 0
  /\ models = NewMemory.models
  /\ model_metadata = NewMemory.model_metadata
  /\ feature_columns = NewMemory.feature_columns
  /\ scalers = NewMemory.scalers
  /\ label_encoders = NewMemory.label_encoders
  /\ tool_models = [k \in Keys |-> NoModel]
  /\ model_files = [f \in ModelFiles |-> NoFile]
  /\ metadata_files = [k \in Keys |-> NoFile]
  /\ jobs = [j \in Jobs |-> NoJob]
  /\ last \in FunctionInputs

\* a call of _time_series_split
TimeSeriesSplit ==
  /\ last.op = "rows"
  /\ last' = [op |-> "split", years |-> last.years,
              train |-> _time_series_split(last.years).train,
              test |-> _time_series_split(last.years).test]
  /\ UNCHANGED <<db, faulty, run, wp_vars, tool_models, model_files,
                 metadata_files, jobs>>

\* the dates of the loop of predict_water_levels
PredictionDates ==
  /\ last.op = "start"
  /\ last' = [op |-> "dates", start_date |-> last.start_date,
              months |-> last.months,
              dates |-> prediction_dates(last.start_date, last.months)]
  /\ UNCHANGED <<db, faulty, run, wp_vars, tool_models, model_files,
                 metadata_files, jobs>>

\* water_predictor.py:634-645: the interval of one prediction and the three
\* rounded numbers reported for it
PredictionConfidence ==
  /\ last.op = "level"
  /\ \E interval \in {_calculate_prediction_confidence(last.prediction,
                                                         last.metrics)} :
       last' = [op |-> "confidence", prediction |-> last.prediction,
                metrics |-> last.metrics,
                predicted_water_level |-> Round2(100 * last.prediction),
                confidence_lower |-> Round2(interval.lower),
                confidence_upper |-> Round2(interval.upper)]
  /\ UNCHANGED <<db, faulty, run, wp_vars, tool_models, model_files,
                 metadata_files, jobs>>

\* water_predictor.py:101-106: the selection among the candidates that were
\* fit, in the order of _get_model_candidates
SelectBest ==
  /\ last.op = "scores"
  /\ \E results \in {SelectSeq(_get_model_candidates(last.model_type),
                                LAMBDA a : a \in last.fitted)} :
       /\ results # <<>>
       /\ last' = [op |-> "best", results |-> results, r2_mean |-> last.r2_mean,
                   mse |-> last.mse,
                   best_model |-> BestModel(results, last.r2_mean)]
  /\ UNCHANGED <<db, faulty, run, wp_vars, tool_models, model_files,
                 metadata_files, jobs>>

\* prediction_tool.py:97-99: the selection among the tool's two candidates
\* when both were fit
ToolSelectBest ==
  /\ last.op = "scores"
  /\ last.model_type = "all"
  /\ ToolAlgoSet \subseteq last.fitted
  /\ last' = [op |-> "tool_best", results |-> ToolAlgos,
              r2_mean |-> last.r2_mean, mse |-> last.mse,
              best_model |-> ToolBestModel(last.mse)]
  /\ UNCHANGED <<db, faulty, run, wp_vars, tool_models, model_files,
                 metadata_files, jobs>>

\* water_predictor.py:616-647 on a history that is not empty: the features
\* of every step and the value the model returns for it
ForecastFeatures ==
  /\ last.op = "history"
  /\ last' = [op |-> "features", historical_data |-> last.historical_data,
              predicted |-> last.predicted,
              vectors |-> [i \in 1..Len(last.predicted) |->
                             StepFeatures(last.historical_data,
                                          SubSeq(last.predicted, 1, i - 1))]]
  /\ UNCHANGED <<db, faulty, run, wp_vars, tool_models, model_files,
                 metadata_files, jobs>>

\* water_predictor.py:243-258: the lag columns of the frame, shown for the
\* rows in front of the padding
TrainingLags ==
  /\ last.op = "frame"
  /\ \E data \in {last.data \o Padding} :
       last' = [op |-> "lags", data |-> last.data,
                water_level_lag_1 |->
                  [i \in KeptLabels(last.data) |-> LagColumn(data, 1, i)],
                water_level_lag_2 |->
                  [i \in KeptLabels(last.data) |-> LagColumn(data, 2, i)]]
  /\ UNCHANGED <<db, faulty, run, wp_vars, tool_models, model_files,
                 metadata_files, jobs>>

\* water_predictor.py:636-637: the quality label of one prediction
AssessQuality ==
  /\ last.op = "readings"
  /\ last' = [op |-> "quality", prediction |-> last.prediction,
              water_levels |-> last.water_levels,
              prediction_quality |->
                _assess_prediction_quality(last.prediction, last.water_levels)]
  /\ UNCHANGED <<db, faulty, run, wp_vars, tool_models, model_files,
                 metadata_files, jobs>>

\* water_predictor.py:649-651, 662: the recommendations of a successful
\* forecast
Recommend ==
  /\ last.op = "predictions"
  /\ last' = [op |-> "recommendations", success |-> TRUE,
              predictions |-> last.predictions,
              recommendations |->
                _generate_prediction_recommendations(last.predictions)]
  /\ UNCHANGED <<db, faulty, run, wp_vars, tool_models, model_files,
                 metadata_files, jobs>>

FunctionNext ==
  \/ TimeSeriesSplit \/ PredictionDates \/ PredictionConfidence
  \/ SelectBest \/ ToolSelectBest \/ ForecastFeatures \/ TrainingLags
  \/ AssessQuality \/ Recommend

FunctionSpec == FunctionInit /\ [][FunctionNext]_vars

(* ------------------------------ properties ---------------------------- *)
\* the files a successful training of model_key leaves behind: the metadata
\* file and the model file it names, written by the same run
PersistedModel(model_key) ==
  /\ metadata_files[model_key].kind = "meta"
  /\ model_files[<<metadata_files[model_key].model_type, model_key>>].kind = "model"
  /\ model_files[<<metadata_files[model_key].model_type, model_key>>].run
       = metadata_files[model_key].run

\* what predict_water_levels returns for a state and a district on the
\* predictor `mem`, the files `disk` and the table `tbl`
Forecast(mem, disk, tbl, state, district) ==
  LET Answer(rows) ==
        predict_water_levels(mem, disk, state, district, MaxMonths, 0, rows,
                             CHOOSE g \in FirstRows(rows) : TRUE).result
  IN Answer(CHOOSE rows \in query_groundwater_data(tbl, TRUE,
                      [state |-> state, district |-> district], ForecastLimit) : TRUE)

\* C1: a training call for which the store returns fewer than 100 rows
\* returns success=false with the error that names the 100-record threshold
\* and leaves every model file and metadata file as it was.
C1_InsufficientData ==
  [][(last'.op = "train" /\ last'.n < 100)
       => /\ ~last'.result.success
          /\ last'.result.error = "insufficient_data_need_100"
          /\ model_files' = model_files
          /\ metadata_files' = metadata_files]_vars

\* a training call with 99 rows has returned while a model is on disk
C1_Witness ==
  /\ last.op = "train"
  /\ last.n = 99
  /\ ~last.result.success
  /\ \E f \in ModelFiles : model_files[f].kind = "model"

\* C2: a training call on at least 100 valid rows, with a candidate that
\* fits, returns success=true and has persisted a model file for the
\* requested key, whatever calls the same predictor served before.
C2_TrainingSucceeds ==
  (last.op = "train" /\ last.n >= MinTrainRecords /\ last.fits)
    => /\ last.result.success
       /\ \E a \in Algos :
             /\ model_files[<<a, IF last.region = None THEN National
                                 ELSE last.region>>].kind = "model"
             /\ model_files[<<a, IF last.region = None THEN National
                                 ELSE last.region>>].run = last.run

\* C3: once a training for a state has persisted its model, a fresh
\* predictor asked to forecast that state uses the state's model, whichever
\* algorithm the training selected.
C3_FreshPredictorLoads ==
  (last.op = "predict" /\ last.fresh /\ PersistedModel(last.state))
    => last.model_key = last.state

\* C4: the model and the metadata a fresh predictor loads for a state, and
\* forecasts with, were both written by the latest training run of that
\* state.
C4_SameRun ==
  (/\ last.op = "predict" /\ last.fresh /\ last.model_key = last.state
   /\ last.result.success /\ last.result.predictions # <<>>)
    => /\ models[last.state].run = metadata_files[last.state].run
       /\ model_metadata[last.state] = metadata_files[last.state]

\* C5: a model file is written only by a training run that selected it as
\* the best model and wrote the matching metadata file with it, and a
\* training call that returns success=false writes nothing.
C5_NoPartialModel ==
  [][/\ \A f \in ModelFiles :
          model_files'[f] # model_files[f]
            => /\ model_files'[f].kind = "model"
               /\ metadata_files'[f[2]].kind = "meta"
               /\ metadata_files'[f[2]].run = model_files'[f].run
               /\ metadata_files'[f[2]].model_type = f[1]
     /\ (last'.op \in {"train", "tool_train"} /\ ~last'.result.success)
          => (model_files' = model_files /\ metadata_files' = metadata_files)
    ]_vars

\* C6: a training or forecast call of the predictor that returns
\* success=false leaves every persisted model and metadata file as it was.
C6_FailureLeavesFiles ==
  [][(last'.op \in {"train", "predict"} /\ ~last'.result.success)
       => (model_files' = model_files /\ metadata_files' = metadata_files)
    ]_vars

\* C7: a forecast uses the state's model when the predictor holds it,
\* predicts with the national model only when the state has no model in
\* memory or persisted, and returns the no-model error when neither can be
\* had.
C7_ResolutionOrder ==
  last.op = "predict"
    => /\ last.cached => last.model_key = last.state
       /\ (/\ last.result.success /\ last.result.predictions # <<>>
           /\ last.result.model_key_used = National)
            => (~last.cached /\ ~PersistedModel(last.state))
       /\ last.model_key = None
            => (~last.result.success /\ last.result.error = "no_trained_model")

\* C8: a forecast call of either predictor class writes no model or
\* metadata file and starts no training run; without a model it fails.
C8_ForecastDoesNotTrain ==
  [][/\ last'.op \in {"predict", "tool_predict"}
          => (model_files' = model_files /\ metadata_files' = metadata_files)
     /\ last'.op \in {"predict", "tool_predict"} => run' = run
     /\ (last'.op = "predict" /\ last'.model_key = None) => ~last'.result.success
    ]_vars

\* C9: the predictions a state gets are the same whether or not a forecast,
\* a model load or a training for another state happened in between.
C9_RegionsDoNotInterfere ==
  [][\A a \in States, d \in Districts :
        ( /\ \/ last'.op = "predict" /\ last'.state # a
             \/ last'.op = "train" /\ last'.region \in States \ {a}
          /\ Forecast(Mem, Disk, db, a, d).success
          /\ Forecast(Mem, Disk, db, a, d).predictions # <<>> )
        => Forecast(Mem', Disk', db', a, d) = Forecast(Mem, Disk, db, a, d)
    ]_vars

\* C10: a forecast that returned predictions, asked again of the same
\* predictor with the same files and the same history, returns the same
\* predictions.
C10_Idempotent ==
  (last.op = "predict" /\ last.result.success /\ last.result.predictions # <<>>)
    => predict_water_levels(Mem, Disk, last.state, last.district, last.months,
                            last.start_date, last.rows, last.first).result
         = last.result

\* C11: every row _time_series_split places in the test split has a year
\* greater than or equal to the year of every row of the train split,
\* whatever order the rows came in.
C11_ChronologicalSplit ==
  last.op = "split"
    => \A i \in 1..Len(last.test), j \in 1..Len(last.train) :
          last.test[i] >= last.train[j]

\* C12: consecutive predictions of a forecast have strictly increasing
\* (year, month), so no calendar month appears twice.
C12_StrictlyIncreasingMonths ==
  last.op = "dates"
    => \A i \in 2..Len(last.dates) :
          \/ last.dates[i - 1].year < last.dates[i].year
          \/ /\ last.dates[i - 1].year = last.dates[i].year
             /\ last.dates[i - 1].month < last.dates[i].month

\* C13: a successful forecast for N months returns at most N predictions,
\* one for each step whose feature vector could be built and none for the
\* others, in step order; so exactly N when every step has a vector.
C13_HorizonLength ==
  (last.op = "predict" /\ last.result.success)
    => LET predictions == last.result.predictions
           vector == [i \in 1..last.months |->
                        _create_prediction_features(
                           Mem, last.rows, last.first, last.state,
                           last.district, last.start_date + StepDays * (i - 1))]
       IN /\ Len(predictions) <= last.months
          /\ (\A i \in 1..last.months : vector[i] # NoVector)
                => Len(predictions) = last.months
          /\ \A j \in 1..Len(predictions) :
                \E i \in 1..last.months : predictions[j].vector = vector[i]
          /\ \A i \in 1..last.months :
                vector[i] # NoVector
                  => \E j \in 1..Len(predictions) : predictions[j].vector = vector[i]
          /\ \A j \in 2..Len(predictions) :
                predictions[j - 1].day < predictions[j].day

\* a forecast of more than one month has returned a prediction for each
C13_Witness ==
  /\ last.op = "predict"
  /\ last.result.success
  /\ last.months >= 2
  /\ Len(last.result.predictions) = last.months

\* C14: when the state, the district or the history's category of a
\* forecast is not in the encoder vocabulary, the value is encoded as the
\* "Unknown" bucket and every step still yields a prediction, also when
\* "Unknown" never occurred in the training data.
C14_UnseenCategory ==
  ( /\ last.op = "predict" /\ last.result.success
    /\ last.first.geo
    /\ "scaler" \in DOMAIN scalers
          => (scalers["scaler"].fit # 0
              /\ scalers["scaler"].ncols = NumericalCount(feature_columns))
    /\ \/ "state" \in DOMAIN label_encoders
            /\ last.state \notin label_encoders["state"]
       \/ "district" \in DOMAIN label_encoders
            /\ last.district \notin label_encoders["district"]
       \/ "category" \in DOMAIN label_encoders
            /\ last.first.category \notin label_encoders["category"] )
    => Len(last.result.predictions) = last.months

\* C15: every prediction has confidence_lower <= predicted_water_level <=
\* confidence_upper, with an rmse in the metadata, with the default band
\* and on the fallback path of the confidence computation.
C15_ConfidenceInterval ==
  last.op = "confidence"
    => /\ last.confidence_lower <= last.predicted_water_level
       /\ last.predicted_water_level <= last.confidence_upper

\* an interval of the default band around a level above it has been reported
C15_Witness ==
  /\ last.op = "confidence"
  /\ last.metrics.kind = "none"
  /\ 100 * last.prediction > ConfidenceFactor * DefaultRmse
  /\ last.confidence_lower < last.predicted_water_level

\* C16: a forecast whose model was resolved but whose history is empty
\* returns success=false with the no-historical-data error and nothing
\* else; a forecast without a model returns the model-unavailable error,
\* whether or not there is history, because the model is resolved first.
C16_NoHistory ==
  last.op = "predict"
    => /\ (last.model_key # None /\ Total(last.rows) = 0)
            => /\ ~last.result.success
               /\ last.result.error = "no_historical_data"
               /\ DOMAIN last.result = {"success", "error"}
       /\ last.model_key = None
            => /\ ~last.result.success
               /\ last.result.error = "no_trained_model"
               /\ DOMAIN last.result = {"success", "error"}

\* a forecast with a loaded model has found no history
C16_Witness ==
  /\ last.op = "predict"
  /\ last.model_key # None
  /\ Total(last.rows) = 0
  /\ last.result.error = "no_historical_data"


\* C17: every error raised inside train_prediction_model or
\* predict_water_levels, at whatever step, comes back as a result with
\* success = false and an error message; a result with success = true has
\* no error.  Of a training the steps are the row fetch, the feature
\* preparation, the fit of every candidate and the two writes; of a forecast
\* the model resolution, the history fetch, the feature construction of a
\* step and the model's prediction.
C17_ErrorsAreStructured ==
  /\ last.op \in {"train", "predict"}
       => /\ last.result.success \in BOOLEAN
          /\ last.result.success => last.result.error = None
          /\ ~last.result.success => last.result.error # None
  /\ (last.op = "train" /\ (~last.fits \/ ~last.written))
       => ~last.result.success
  /\ ( /\ last.op = "predict"
       /\ last.model_key # None
       /\ ~NoHistory(last.rows)
       /\ \E i \in 1..last.months :
             _create_prediction_features(
                Mem, last.rows, last.first, last.state, last.district,
                last.start_date + StepDays * (i - 1)) = NoVector )
       => ~last.result.success


\* C18: the training writes for one region key do not race: whenever no job
\* for the key is between its two writes, the metadata file of the key and
\* the model file it names come from the same job, also when two jobs for
\* the key ran at the same time.
C18_WritesDoNotRace ==
  \A k \in Keys :
     ( /\ metadata_files[k] # NoFile
       /\ \A j \in Jobs : ~(jobs[j].pc = "model_saved" /\ jobs[j].key = k) )
       => PersistedModel(k)


\* C19: the model a training reports as best_model has the highest mean
\* cross-validated R2 among the candidates that were fit: none of them has
\* a strictly higher r2_mean, whatever the scores on the test split are.
C19_BestByCrossValidation ==
  last.op \in {"best", "tool_best"}
    => \A i \in 1..Len(last.results) :
          last.r2_mean[last.results[i]] <= last.r2_mean[last.best_model]


\* C20: in a training that reaches the fit loop (100 rows or more, features
\* prepared) on a disk whose writes succeed, a candidate whose fit raises is
\* skipped: the call returns success = true exactly when at least one
\* candidate was fit, and when none was (every fit raised, or there is no
\* candidate) it returns the all-models-failed error and leaves every model
\* file and metadata file as it was.
C20_FailedCandidateSkipped ==
  [][ ( /\ last'.op = "train"
        /\ run' = run + 1
        /\ last'.result.error # "feature_preparation_failed" )
      => /\ last'.fits <=> last'.result.success
         /\ ~last'.fits
              => /\ last'.result.error = "all_models_failed"
                 /\ model_files' = model_files
                 /\ metadata_files' = metadata_files ]_vars

\* a training has succeeded although the fit of one of its candidates raised
C20_Witness ==
  /\ last.op = "train"
  /\ last.skipped
  /\ last.fits
  /\ last.result.success


\* C21: the model family selector determines the candidate set:
\* random_forest, gradient_boosting and linear give the one model of that
\* family, all gives the three; the best_model of a successful training is a
\* member of the candidate set of the selector asked for, and a training
\* with any other selector fails.
C21_SelectorCandidates ==
  LET CandidateSet(selector) ==
        CASE selector = "random_forest" -> {"random_forest"}
          [] selector = "gradient_boosting" -> {"gradient_boosting"}
          [] selector = "linear" -> {"linear_regression"}
          [] selector = "all" -> {"random_forest", "gradient_boosting",
                                  "linear_regression"}
          [] OTHER -> {}
      candidates == _get_model_candidates(last.model_type)
  IN last.op = "train"
       => /\ {candidates[i] : i \in 1..Len(candidates)} = CandidateSet(last.model_type)
          /\ last.result.success
               => last.result.best_model \in CandidateSet(last.model_type)
          /\ last.model_type \notin {"random_forest", "gradient_boosting",
                                     "linear", "all"}
               => /\ ~last.result.success
                  /\ last.result.error \in {"all_models_failed",
                                            "feature_preparation_failed"}

\* a training with the selector "all" has chosen the linear model
C21_Witness ==
  /\ last.op = "train"
  /\ last.model_type = "all"
  /\ last.result.success
  /\ last.result.best_model = "linear_regression"


\* C22: after a successful training of region R the label encoders and the
\* scaler in R's metadata file were fit on R's training rows in that same
\* run, whatever trainings and loads the predictor went through before.
C22_EncodersOfThisRun ==
  (last.op = "train" /\ last.result.success)
    => LET metadata == metadata_files[last.result.model_key]
           rows == Matching(db, [state |-> last.region, district |-> None])
       IN /\ metadata.kind = "meta"
          /\ metadata.run = last.run
          /\ metadata.scalers["scaler"].fit = last.run
          /\ \A col \in DOMAIN metadata.label_encoders :
                metadata.label_encoders[col] = ColumnValues(rows, col)


\* C23: the lag and rolling features of every step of a forecast come from
\* the fetched history only: all steps carry the same lag-1, lag-2 and
\* rolling means, each a value of the history, and none carries the value
\* predicted for an earlier step.
C23_LagsFromHistory ==
  last.op = "features"
    => LET levels == {last.historical_data[i].water_level :
                        i \in 1..Len(last.historical_data)}
       IN \A i \in 1..Len(last.vectors) :
             /\ last.vectors[i].water_level_lag_1 = last.vectors[1].water_level_lag_1
             /\ last.vectors[i].water_level_lag_2 = last.vectors[1].water_level_lag_2
             /\ last.vectors[i].rolling_mean_3 = last.vectors[1].rolling_mean_3
             /\ last.vectors[i].rolling_mean_5 = last.vectors[1].rolling_mean_5
             /\ last.vectors[i].water_level_lag_1 \in levels
             /\ last.vectors[i].water_level_lag_2 \in levels \cup {0}
             /\ \A j \in 1..(i - 1) :
                   /\ last.vectors[i].water_level_lag_1 # last.predicted[j]
                   /\ last.vectors[i].water_level_lag_2 # last.predicted[j]

\* a forecast of two steps or more on a history long enough for every lag
\* and rolling feature
C23_Witness ==
  /\ last.op = "features"
  /\ Len(last.vectors) >= 2
  /\ Len(last.historical_data) >= 5
  /\ last.vectors[2].rolling_mean_5 # 0

\* C24: the lag-1 value, the position and the category of a forecast's
\* feature vector are those of the most recent observation (greatest year,
\* then month) of the fetched history, and lag-2 is the water level of the
\* second most recent, in whatever order the store returned the rows.
C24_MostRecentObservation ==
  last.op = "features"
    => LET h == last.historical_data
           Later(a, b) == \/ a.year > b.year
                          \/ a.year = b.year /\ a.month > b.month
           newest == CHOOSE a \in {h[i] : i \in 1..Len(h)} :
                        \A i \in 1..Len(h) : h[i] # a => Later(a, h[i])
           second == CHOOSE a \in {h[i] : i \in 1..Len(h)} \ {newest} :
                        \A i \in 1..Len(h) :
                           h[i] \notin {a, newest} => Later(a, h[i])
       IN \A i \in 1..Len(last.vectors) :
             /\ last.vectors[i].water_level_lag_1 = newest.water_level
             /\ last.vectors[i].latitude = newest.latitude
             /\ last.vectors[i].longitude = newest.longitude
             /\ last.vectors[i].category = newest.category
             /\ Len(h) >= 2
                  => last.vectors[i].water_level_lag_2 = second.water_level


\* C25: in a training frame of more than 50 rows the lag-1 (lag-2) feature
\* of an observation is the water level of the previous (second previous)
\* observation in time of the same location, among the rows whose target is
\* not missing, for any order of the rows; an observation with no such
\* predecessor has no lag value.
C25_TrainingLags ==
  last.op = "lags"
    => LET data == last.data
           kept == {i \in 1..Len(data) : data[i].water_level # NaN}
           Earlier(i) == {j \in kept : data[j].loc = data[i].loc
                                       /\ data[j].t < data[i].t}
           \* the lag-th observation before i
           Previous(i, lag) ==
             {j \in Earlier(i) :
                Cardinality({k \in Earlier(i) : data[k].t > data[j].t}) = lag - 1}
           Expected(i, lag) ==
             IF Previous(i, lag) = {} THEN NaN
             ELSE data[CHOOSE j \in Previous(i, lag) : TRUE].water_level
       IN \A i \in kept :
             /\ last.water_level_lag_1[i] = Expected(i, 1)
             /\ last.water_level_lag_2[i] = Expected(i, 2)


\* C26: every historical row a forecast uses belongs to the (state,
\* district) pair asked for: its state equals the state argument and its
\* district the district argument, and there are at most 100 of them.
C26_ExactLocation ==
  (last.op = "predict" /\ last.result.success)
    => /\ Total(last.rows) <= ForecastLimit
       /\ \A g \in RowGroups :
             last.rows[g] > 0
               => g.state = last.state /\ g.district = last.district


\* C27: the quality label of a prediction is a function of the prediction
\* and the readings of the first five rows of the history: high when the
\* prediction is within one standard deviation of their mean, medium when
\* within two, low otherwise, with mean and deviation over exactly those
\* readings, a reading of 0 included; it is one of high, medium, low.
C27_QualityLabel ==
  last.op = "quality"
    => LET five == SubSeq(last.water_levels, 1, Min(5, Len(last.water_levels)))
       IN /\ last.prediction_quality \in {"high", "medium", "low"}
          /\ last.prediction_quality =
               IF WithinSigmas(last.prediction, five, 1) THEN "high"
               ELSE IF WithinSigmas(last.prediction, five, 2) THEN "medium"
               ELSE "low"


\* C28: the recommendations of every successful forecast end with the
\* general item "Use predictions for long-term planning", for every list of
\* predictions, the empty one included.
C28_GeneralRecommendation ==
  (last.op = "recommendations" /\ last.success)
    => /\ last.recommendations # <<>>
       /\ last.recommendations[Len(last.recommendations)]
            = "Use predictions for long-term planning"


\* C29: a training call that returns success = false leaves the predictor's
\* memory as it was: the cached models, the feature column order, the
\* scaler and the label encoders are the same after the call as before it.
C29_FailedTrainingKeepsMemory ==
  [][ (last'.op = "train" /\ ~last'.result.success)
        => /\ models' = models
           /\ feature_columns' = feature_columns
           /\ scalers' = scalers
           /\ label_encoders' = label_encoders ]_vars


\* C30: cleanup_old_models keeps the files of every region key together:
\* after a cleanup call either a model file and the metadata file of the
\* key remain or none of them does, and a key that get_model_info still
\* reports (in memory or with metadata) and that a new predictor could
\* load before the call can still be loaded by a new predictor after it.
C30_CleanupKeepsPairs ==
  [][ last'.op = "cleanup"
        => \A k \in Keys :
              /\ (\E a \in Algos : model_files'[<<a, k>>] # NoFile)
                   <=> metadata_files'[k] # NoFile
              /\ ( /\ models'[k] # NoModel \/ model_metadata'[k] # NoMeta
                   /\ _load_model(NewMemory, Disk, k).ok )
                   => _load_model(NewMemory,
                                  [model |-> model_files', meta |-> metadata_files'],
                                  k).ok ]_vars

====
